---- MODULE Spec2Model ----
(***************************************************************************)
(* The to-do list manager of ctk_todo_app.py: the task file, load_tasks,   *)
(* save_tasks and the handlers of TodoApp (add_task_event,                 *)
(* toggle_complete, remove_task, refresh_task_list, on_closing).           *)
(*                                                                         *)
(* A JSON/Python value is a record [ty, v]: ty its type ("str", "num",     *)
(* "bool") and v its text, one character (or one literal) per element.     *)
(* A task is a Python dict: a function from a subset of the keys           *)
(* "description", "done", "timestamp" to values.                           *)
(*                                                                         *)
(* Time is one two-digit field: strftime writes it zero-padded ("07"),     *)
(* strptime reads it with or without the leading zero, as CPython's        *)
(* strptime reads each field of "%Y-%m-%d %H:%M:%S".                       *)
(***************************************************************************)
EXTENDS Integers, Sequences, FiniteSets, TLC

VARIABLES pc, tasks, file, writable, now, shown, last

vars == <<pc, tasks, file, writable, now, shown, last>>

\* The longest task list add_task_event is let to build.
MaxTasks == 3
\* The last second of the clock.
MaxTime == 2
\* The longest JSON array the task file holds at start.
MaxFileLen == 2

---------------------------------------------------------------------------
\* Python values

Str(s) == [ty |-> "str", v |-> s]

Num(s) == [ty |-> "num", v |-> s]

JTrue == [ty |-> "bool", v |-> <<"true">>]

JFalse == [ty |-> "bool", v |-> <<"false">>]

PyBool(b) == IF b THEN JTrue ELSE JFalse

DigitVal == [c \in {"0", "1", "2", "3", "4", "5", "6", "7", "8", "9"} |->
               CASE c = "0" -> 0 [] c = "1" -> 1 [] c = "2" -> 2 [] c = "3" -> 3
                 [] c = "4" -> 4 [] c = "5" -> 5 [] c = "6" -> 6 [] c = "7" -> 7
                 [] c = "8" -> 8 [] c = "9" -> 9]

DigitChar == [n \in 0..9 |-> CHOOSE c \in DOMAIN DigitVal : DigitVal[c] = n]

IsDigits(s) == \A i \in 1..Len(s) : s[i] \in DOMAIN DigitVal

RECURSIVE DigitsVal(_)
DigitsVal(s) ==
  IF s = <<>> THEN 0
  ELSE 10 * DigitsVal(SubSeq(s, 1, Len(s) - 1)) + DigitVal[s[Len(s)]]

\* The integer a bool or a number compares as (True is 1, False is 0).
IntOf(x) ==
  IF x.ty = "bool" THEN (IF x = JTrue THEN 1 ELSE 0)
  ELSE IF x.v[1] = "-" THEN 0 - DigitsVal(Tail(x.v))
  ELSE DigitsVal(x.v)

\* bool(x): what `not x` and `if x` see.
Truthy(x) ==
  IF x.ty \in {"bool", "num"} THEN IntOf(x) # 0
  ELSE IF x.ty = "null" THEN FALSE
  ELSE x.v # <<>>

\* x == y
PyEq(x, y) ==
  IF x.ty \in {"bool", "num"} /\ y.ty \in {"bool", "num"}
  THEN IntOf(x) = IntOf(y)
  ELSE x = y

CharCode(c) ==
  CASE c = " " -> 32 [] c = "N" -> 78 [] c = "D" -> 68 [] c = "a" -> 97
    [] c = "x" -> 120 [] c = "y" -> 121 [] c = "z" -> 122
    [] c \in DOMAIN DigitVal -> 48 + DigitVal[c]
    [] OTHER -> 100

RECURSIVE StrLt(_, _)
StrLt(a, b) ==
  IF b = <<>> THEN FALSE
  ELSE IF a = <<>> THEN TRUE
  ELSE IF CharCode(Head(a)) # CharCode(Head(b))
       THEN CharCode(Head(a)) < CharCode(Head(b))
  ELSE StrLt(Tail(a), Tail(b))

\* x < y is defined between numbers (bools among them) and between strings;
\* anything else is a TypeError.
Comparable(x, y) ==
  \/ x.ty \in {"bool", "num"} /\ y.ty \in {"bool", "num"}
  \/ x.ty = "str" /\ y.ty = "str"

PyLt(x, y) ==
  IF x.ty = "str" THEN StrLt(x.v, y.v) ELSE IntOf(x) < IntOf(y)

RECURSIVE lstrip(_)
lstrip(s) == IF s # <<>> /\ Head(s) = " " THEN lstrip(Tail(s)) ELSE s

RECURSIVE rstrip(_)
rstrip(s) ==
  IF s # <<>> /\ s[Len(s)] = " " THEN rstrip(SubSeq(s, 1, Len(s) - 1)) ELSE s

\* str.strip()
strip(s) == rstrip(lstrip(s))

---------------------------------------------------------------------------
\* datetime

\* datetime.strftime(FORMAT): the field, zero-padded.
strftime(n) == Str(<<DigitChar[n \div 10], DigitChar[n % 10]>>)

\* datetime.strptime(x, FORMAT): the time, a ValueError for a text that is not
\* in the format, a TypeError for what is no text.
strptime(x) ==
  IF x.ty # "str" THEN [exc |-> "TypeError", t |-> 0]
  ELSE IF Len(x.v) \in {1, 2} /\ IsDigits(x.v) THEN [exc |-> "none", t |-> DigitsVal(x.v)]
  ELSE [exc |-> "ValueError", t |-> 0]

\* datetime(1970, 1, 1)
EPOCH == 0

---------------------------------------------------------------------------
\* dict

setdefault(d, k, val) ==
  IF k \in DOMAIN d THEN d
  ELSE [x \in DOMAIN d \cup {k} |-> IF x = k THEN val ELSE d[x]]

setitem(d, k, val) ==
  [x \in DOMAIN d \cup {k} |-> IF x = k THEN val ELSE d[x]]

NO_DESCRIPTION ==
  Str(<<"N", "o", " ", "D", "e", "s", "c", "r", "i", "p", "t", "i", "o", "n">>)

\* A JSON object, as against a scalar [ty, v].
IsDict(e) == "ty" \notin DOMAIN e

\* dict.get(k): None when the key is absent.
None == [ty |-> "null", v |-> <<"null">>]

get(d, k) == IF k \in DOMAIN d THEN d[k] ELSE None

get_or(d, k, default) == IF k \in DOMAIN d THEN d[k] ELSE default

---------------------------------------------------------------------------
\* The task file: missing, zero-length ("empty"), text that is no JSON
\* ("garbage"), JSON that is no array ("scalar"), or a JSON array ("list").

NoFile(k) == [kind |-> k, items |-> <<>>]

\* json.load(f)
json_load(f) ==
  IF f.kind = "garbage" THEN [exc |-> "JSONDecodeError", islist |-> FALSE, val |-> <<>>]
  ELSE [exc |-> "none", islist |-> f.kind = "list", val |-> f.items]

\* json.dump(tasks, f, indent=4)
json_dump(ts) == [kind |-> "list", items |-> ts]

\* A bug load_tasks could have: a timestamp that parses is replaced too.
normalize_restamp(task, clock) ==
  IF ~IsDict(task) THEN [exc |-> "AttributeError", task |-> task]
  ELSE [exc |-> "none",
        task |-> setitem(setdefault(setdefault(task, "description", NO_DESCRIPTION),
                                    "done", JFalse),
                         "timestamp", strftime(clock))]

\* The body of load_tasks' loop for one element of the array.
normalize(task, clock) ==
  IF ~IsDict(task) THEN [exc |-> "AttributeError", task |-> task]
  ELSE
    LET t1 == setdefault(task, "description", NO_DESCRIPTION)
        t2 == setdefault(t1, "done", JFalse)
    IN IF "timestamp" \notin DOMAIN t2
       THEN [exc |-> "none", task |-> setitem(t2, "timestamp", strftime(EPOCH))]
       ELSE LET p == strptime(t2["timestamp"])
            IN IF p.exc = "none" THEN [exc |-> "none", task |-> t2]
               ELSE IF p.exc = "ValueError"
                    THEN [exc |-> "none", task |-> setitem(t2, "timestamp", strftime(clock))]
               ELSE [exc |-> p.exc, task |-> t2]

RECURSIVE normalize_all(_, _)
normalize_all(items, clock) ==
  IF items = <<>> THEN [exc |-> "none", tasks |-> <<>>]
  ELSE LET h == normalize(Head(items), clock)
       IN IF h.exc # "none" THEN [exc |-> h.exc, tasks |-> <<>>]
          ELSE LET r == normalize_all(Tail(items), clock)
               IN IF r.exc # "none" THEN r
                  ELSE [exc |-> "none", tasks |-> <<h.task>> \o r.tasks]

\* The try block of load_tasks.
try_load(f, clock) ==
  LET j == json_load(f)
  IN IF j.exc # "none" THEN [exc |-> j.exc, tasks |-> <<>>]
     ELSE IF ~j.islist THEN [exc |-> "none", tasks |-> <<>>]
     ELSE normalize_all(j.val, clock)

\* A bug load_tasks could have: the last except clause is missing.
except_load_narrow(r) ==
  IF r.exc = "none" THEN r
  ELSE IF r.exc \in {"JSONDecodeError", "IOError"} THEN [exc |-> "none", tasks |-> <<>>]
  ELSE r

\* The except clauses of load_tasks.
except_load(r) ==
  IF r.exc = "none" THEN r
  ELSE IF r.exc \in {"JSONDecodeError", "IOError"} THEN [exc |-> "none", tasks |-> <<>>]
  ELSE [exc |-> "none", tasks |-> <<>>]

load_tasks(f, clock) ==
  IF f.kind = "missing" THEN [exc |-> "none", tasks |-> <<>>]
  ELSE IF f.kind = "empty" THEN [exc |-> "none", tasks |-> <<>>]
  ELSE except_load(try_load(f, clock))

\* What a save can meet: no fault; open() fails (the file is left as it was),
\* which is what a file that cannot be written gives; the write fails after
\* open() truncated the file, with nothing ("trunc") or a part of the text
\* ("partial") written.
Faults(w) == IF w THEN {"none", "trunc", "partial"} ELSE {"open"}

\* A bug save_tasks could have: the file is opened and nothing is dumped.
save_tasks_undumped(ts, f, fault) ==
  IF fault = "open" THEN f ELSE NoFile("empty")

save_tasks(ts, f, fault) ==
  CASE fault = "none" -> json_dump(ts)
    [] fault = "open" -> f
    [] fault = "trunc" -> NoFile("empty")
    [] fault = "partial" -> NoFile("garbage")

---------------------------------------------------------------------------
\* refresh_task_list

ts_key(t) == strptime(get_or(t, "timestamp", strftime(EPOCH)))

done_key(t) == get_or(t, "done", JFalse)

\* The first exception the timestamp key raises, in list order.
RECURSIVE ts_key_exc(_)
ts_key_exc(ts) ==
  IF ts = <<>> THEN "none"
  ELSE IF ts_key(Head(ts)).exc # "none" THEN ts_key(Head(ts)).exc
  ELSE ts_key_exc(Tail(ts))

\* Sorting two or more keys that do not compare raises TypeError.
done_key_exc(ts) ==
  IF \E i, j \in 1..Len(ts) : i # j /\ ~Comparable(done_key(ts[i]), done_key(ts[j]))
  THEN "TypeError" ELSE "none"

RECURSIVE insert_by_time(_, _)
insert_by_time(s, x) ==
  IF s = <<>> THEN <<x>>
  ELSE IF ts_key(x).t < ts_key(Head(s)).t THEN <<x>> \o s
  ELSE <<Head(s)>> \o insert_by_time(Tail(s), x)

\* sorted(tasks, key=timestamp): stable.
RECURSIVE sorted_by_time(_)
sorted_by_time(s) ==
  IF s = <<>> THEN <<>>
  ELSE insert_by_time(sorted_by_time(SubSeq(s, 1, Len(s) - 1)), s[Len(s)])

RECURSIVE insert_by_done(_, _)
insert_by_done(s, x) ==
  IF s = <<>> THEN <<x>>
  ELSE IF PyLt(done_key(x), done_key(Head(s))) THEN <<x>> \o s
  ELSE <<Head(s)>> \o insert_by_done(Tail(s), x)

\* sorted(tasks, key=done): stable.
RECURSIVE sorted_by_done(_)
sorted_by_done(s) ==
  IF s = <<>> THEN <<>>
  ELSE insert_by_done(sorted_by_done(SubSeq(s, 1, Len(s) - 1)), s[Len(s)])

Raised == [status |-> "raised", rows |-> <<>>]

refresh_task_list(ts) ==
  LET e1 == ts_key_exc(ts)
  IN IF e1 = "TypeError" THEN Raised
     ELSE IF done_key_exc(ts) # "none" THEN Raised
     ELSE LET sorted_tasks == IF e1 = "none" THEN sorted_by_done(sorted_by_time(ts))
                              ELSE sorted_by_done(ts)
          IN IF sorted_tasks = <<>> THEN [status |-> "no_tasks", rows |-> <<>>]
             ELSE [status |-> "rows", rows |-> sorted_tasks]

---------------------------------------------------------------------------
\* The handlers' work on the list

\* A bug add_task_event could have: the entry's text is not stripped.
add_task_unstripped(ts, text, clock) ==
  IF text # <<>>
  THEN [added |-> TRUE,
        tasks |-> Append(ts, [description |-> Str(text), done |-> JFalse,
                              timestamp |-> strftime(clock)])]
  ELSE [added |-> FALSE, tasks |-> ts]

\* A bug add_task_event could have: the new task is put first.
add_task_first(ts, text, clock) ==
  IF strip(text) # <<>>
  THEN [added |-> TRUE,
        tasks |-> <<[description |-> Str(strip(text)), done |-> JFalse,
                     timestamp |-> strftime(clock)]>> \o ts]
  ELSE [added |-> FALSE, tasks |-> ts]

\* add_task_event: whether the entry's text makes a task, and the list after.
add_task(ts, text, clock) ==
  LET description == strip(text)
  IN IF description # <<>>
     THEN [added |-> TRUE,
           tasks |-> Append(ts, [description |-> Str(description), done |-> JFalse,
                                 timestamp |-> strftime(clock)])]
     ELSE [added |-> FALSE, tasks |-> ts]

\* The condition of toggle_complete's loop.
same_task(task, target) ==
  /\ PyEq(task["timestamp"], target["timestamp"])
  /\ PyEq(task["description"], target["description"])

\* toggle_complete's loop, from index i on: it stops at the first match.
RECURSIVE toggle_from(_, _, _)
toggle_from(ts, target, i) ==
  IF i > Len(ts) THEN [found |-> FALSE, tasks |-> ts]
  ELSE IF same_task(ts[i], target)
       THEN [found |-> TRUE,
             tasks |-> [ts EXCEPT ![i] = setitem(ts[i], "done", PyBool(~Truthy(done_key(ts[i]))))]]
  ELSE toggle_from(ts, target, i + 1)

\* A bug toggle_complete could have: no break, every match is flipped.
toggle_every(ts, target) ==
  [found |-> \E i \in 1..Len(ts) : same_task(ts[i], target),
   tasks |-> [i \in 1..Len(ts) |->
                IF same_task(ts[i], target)
                THEN setitem(ts[i], "done", PyBool(~Truthy(done_key(ts[i]))))
                ELSE ts[i]]]

toggle_first(ts, target) == toggle_from(ts, target, 1)

\* The condition of remove_task's comprehension.
kept(task, target) ==
  ~(/\ PyEq(get(task, "timestamp"), get(target, "timestamp"))
    /\ PyEq(get(task, "description"), get(target, "description")))

\* A bug remove_task could have: only the first match is removed.
RECURSIVE remove_first(_, _)
remove_first(ts, target) ==
  IF ts = <<>> THEN <<>>
  ELSE IF kept(Head(ts), target) THEN <<Head(ts)>> \o remove_first(Tail(ts), target)
  ELSE Tail(ts)

\* remove_task's comprehension.
RECURSIVE remove_matching(_, _)
remove_matching(ts, target) ==
  IF ts = <<>> THEN <<>>
  ELSE (IF kept(Head(ts), target) THEN <<Head(ts)>> ELSE <<>>)
       \o remove_matching(Tail(ts), target)

---------------------------------------------------------------------------
\* What the model starts from and is driven with

T01 == Str(<<"0", "1">>)

A == Str(<<"a">>)

\* The objects a task file holds: well-formed ones, and ones with a key
\* missing or a value of another type or form.
FileObjects ==
  { [description |-> A, done |-> JFalse, timestamp |-> T01],
    [description |-> A, done |-> JTrue, timestamp |-> Str(<<"1">>)],
    [done |-> JTrue],
    [description |-> Str(<<" ">>), timestamp |-> T01],
    [description |-> Num(<<"5">>), done |-> JFalse, timestamp |-> T01],
    [description |-> A, done |-> Num(<<"-", "1">>), timestamp |-> T01],
    [description |-> A, done |-> Str(<<"y">>), timestamp |-> T01],
    [description |-> A, done |-> JFalse, timestamp |-> Str(<<"x">>)],
    [description |-> A, done |-> JFalse, timestamp |-> Num(<<"7">>)] }

\* The elements of the file's array: objects, and a number.
FileItems == FileObjects \cup {Num(<<"5">>)}

Files ==
  {NoFile(k) : k \in {"missing", "empty", "garbage", "scalar"}}
    \cup {json_dump(s) : s \in UNION {[1..n -> FileItems] : n \in 0..MaxFileLen}}

\* The task file of a first run, and one written by other hands: a task whose
\* done is a number and whose timestamp has no leading zero, and a done task
\* of another description.
StartFiles ==
  { NoFile("missing"),
    json_dump(<<[description |-> A, done |-> Num(<<"-", "1">>), timestamp |-> Str(<<"1">>)],
                [description |-> Str(<<"b">>), done |-> JTrue, timestamp |-> T01]>>) }

\* The texts typed into the entry.
EntryTexts == {<<>>, <<" ">>, <<"a">>, <<" ", "a", " ">>}

identity(task) == [description |-> task["description"], timestamp |-> task["timestamp"]]

\* The tasks the buttons are bound to, and two tasks that are not in the list.
Targets(ts) ==
  {identity(ts[i]) : i \in 1..Len(ts)}
    \cup {[description |-> A, timestamp |-> Str(<<"0", "9">>)],
          [description |-> Str(<<"z">>), timestamp |-> T01]}

Saved(fault) == IF fault = "none" THEN "ok" ELSE "failed"

---------------------------------------------------------------------------
\* pc: "off" (no process), "running" (in mainloop), "crashed" (__init__
\* raised). tasks: self.tasks (what the last process held, when off).
\* file: tasks_gui.json. writable: whether it can be opened for writing.
\* now: the clock. shown: what the task frame shows.
\* last: the handler that ran last, how it ended, what its save met and how
\* many tasks it loaded, added, flipped or removed.

Init ==
  /\ pc = "off"
  /\ tasks = <<>>
  /\ file \in StartFiles
  /\ writable \in BOOLEAN
  /\ now = 1
  /\ shown = [status |-> "none", rows |-> <<>>]
  /\ last = [op |-> "none", outcome |-> "none", saved |-> "none", n |-> 0]

\* TodoApp.__init__
TodoApp_init ==
  /\ pc = "off"
  /\ LET r == load_tasks(file, now)
         d == refresh_task_list(r.tasks)
     IN /\ tasks' = r.tasks
        /\ shown' = IF r.exc # "none" THEN shown ELSE d
        /\ pc' = IF r.exc # "none" \/ d.status = "raised" THEN "crashed" ELSE "running"
        /\ last' = [op |-> "init",
                    outcome |-> IF r.exc # "none" THEN "load_raised"
                                ELSE IF d.status = "raised" THEN "refresh_raised" ELSE "ok",
                    saved |-> "none", n |-> Len(r.tasks)]
  /\ UNCHANGED <<file, writable, now>>

add_task_event(text) ==
  /\ pc = "running"
  /\ LET r == add_task(tasks, text, now)
     IN /\ tasks' = r.tasks
        /\ IF r.added
           THEN /\ Len(tasks) < MaxTasks
                /\ \E fault \in Faults(writable) :
                     /\ file' = save_tasks(tasks', file, fault)
                     /\ shown' = refresh_task_list(tasks')
                     /\ last' = [op |-> "add", outcome |-> "ok", saved |-> Saved(fault), n |-> 1]
           ELSE /\ last' = [op |-> "add", outcome |-> "noop", saved |-> "none", n |-> 0]
                /\ UNCHANGED <<file, shown>>
  /\ UNCHANGED <<pc, writable, now>>

toggle_complete(task_to_toggle) ==
  /\ pc = "running"
  /\ LET r == toggle_first(tasks, task_to_toggle)
     IN /\ tasks' = r.tasks
        /\ IF r.found
           THEN \E fault \in Faults(writable) :
                  /\ file' = save_tasks(tasks', file, fault)
                  /\ shown' = refresh_task_list(tasks')
                  /\ last' = [op |-> "toggle", outcome |-> "ok", saved |-> Saved(fault), n |-> 1]
           ELSE /\ last' = [op |-> "toggle", outcome |-> "noop", saved |-> "none", n |-> 0]
                /\ UNCHANGED <<file, shown>>
  /\ UNCHANGED <<pc, writable, now>>

remove_task(task_to_remove) ==
  /\ pc = "running"
  /\ tasks' = remove_matching(tasks, task_to_remove)
  /\ IF Len(tasks') < Len(tasks)
     THEN \E fault \in Faults(writable) :
            /\ file' = save_tasks(tasks', file, fault)
            /\ shown' = refresh_task_list(tasks')
            /\ last' = [op |-> "remove", outcome |-> "ok", saved |-> Saved(fault),
                        n |-> Len(tasks) - Len(tasks')]
     ELSE /\ last' = [op |-> "remove", outcome |-> "noop", saved |-> "none", n |-> 0]
          /\ UNCHANGED <<file, shown>>
  /\ UNCHANGED <<pc, writable, now>>

on_closing ==
  /\ pc = "running"
  /\ \E fault \in Faults(writable) :
       /\ file' = save_tasks(tasks, file, fault)
       /\ last' = [op |-> "close", outcome |-> "ok", saved |-> Saved(fault), n |-> 0]
  /\ pc' = "off"
  /\ shown' = [status |-> "none", rows |-> <<>>]
  /\ UNCHANGED <<tasks, writable, now>>

\* A second passes.
Tick ==
  /\ pc # "crashed"
  /\ now < MaxTime
  /\ now' = now + 1
  /\ UNCHANGED <<pc, tasks, file, writable, shown, last>>

Next ==
  \/ TodoApp_init
  \/ \E text \in EntryTexts : add_task_event(text)
  \/ \E t \in Targets(tasks) : toggle_complete(t)
  \/ \E t \in Targets(tasks) : remove_task(t)
  \/ on_closing
  \/ Tick

Spec == Init /\ [][Next]_vars

\* The same program started on any task file, then closed and started again.
InitLoad ==
  /\ pc = "off"
  /\ tasks = <<>>
  /\ file \in Files
  /\ writable \in BOOLEAN
  /\ now = 1
  /\ shown = [status |-> "none", rows |-> <<>>]
  /\ last = [op |-> "none", outcome |-> "none", saved |-> "none", n |-> 0]

NextLoad ==
  \/ TodoApp_init
  \/ on_closing
  \/ Tick

SpecLoad == InitLoad /\ [][NextLoad]_vars

---------------------------------------------------------------------------
\* Properties

Handled == last.op \in {"add", "toggle", "remove"} /\ last.outcome = "ok"

\* What json.load reads back from the file is the list in memory.
OnDisk(ts) ==
  /\ json_load(file).exc = "none"
  /\ json_load(file).islist
  /\ json_load(file).val = ts

\* C1: after an add, a toggle or a remove that changed the list, and after
\* on_closing, the file holds the list in memory, record for record and in
\* order, unless the write failed.
C1_FileHoldsTheList ==
  (Handled \/ last.op = "close") /\ last.saved # "failed" => OnDisk(tasks)

\* A toggle of a list of two or more tasks was saved.
C1_Witness ==
  /\ last.op = "toggle" /\ last.outcome = "ok" /\ last.saved = "ok"
  /\ Len(tasks) >= 2
  /\ \E i \in 1..Len(tasks) : Truthy(tasks[i]["done"])

Keys == {"description", "done", "timestamp"}

\* The text is in the fixed format: every field at its full width.
InFormat(x) == x.ty = "str" /\ Len(x.v) = 2 /\ IsDigits(x.v)

WellFormed(t) ==
  /\ DOMAIN t = Keys
  /\ t["description"].ty = "str"
  /\ t["done"].ty = "bool"
  /\ InFormat(t["timestamp"])

\* C2: once load_tasks has returned, every task in memory has its three
\* fields, a text description, a boolean done and a timestamp in the format.
C2_LoadedTasksWellTyped ==
  pc = "running" => \A i \in 1..Len(tasks) : WellFormed(tasks[i])

Matches(ts, target) == {i \in 1..Len(ts) : identity(ts[i]) = target}

First(S) == CHOOSE i \in S : \A j \in S : i <= j

ToggledFirst(target) ==
  LET M == Matches(tasks, target)
  IN M # {} =>
       /\ Len(tasks') = Len(tasks)
       /\ \A j \in 1..Len(tasks) :
            IF j = First(M)
            THEN /\ DOMAIN tasks'[j] = DOMAIN tasks[j]
                 /\ identity(tasks'[j]) = identity(tasks[j])
                 /\ tasks'[j]["done"] \in {JTrue, JFalse}
                 /\ Truthy(tasks'[j]["done"]) = ~Truthy(tasks[j]["done"])
            ELSE tasks'[j] = tasks[j]

\* C3: toggle_complete flips done of the first task whose description and
\* timestamp are the target's, and leaves every other task, every description
\* and timestamp, and the list's length and order as they were.
C3_ToggleFlipsFirstMatch ==
  [][\A t \in Targets(tasks) : toggle_complete(t) => ToggledFirst(t)]_vars

\* A toggle left two tasks of one description and timestamp with different
\* done flags.
C3_Witness ==
  /\ last.op = "toggle" /\ last.outcome = "ok"
  /\ \E i, j \in 1..Len(tasks) :
       /\ i < j
       /\ identity(tasks[i]) = identity(tasks[j])
       /\ Truthy(tasks[i]["done"]) # Truthy(tasks[j]["done"])

Removed(target) ==
  LET keep(x) == identity(x) # target
  IN /\ \A i \in 1..Len(tasks') : identity(tasks'[i]) # target
     /\ tasks' = SelectSeq(tasks, keep)

\* C4: remove_task leaves no task whose description and timestamp are the
\* target's, and every other task, unmodified and in the same order.
C4_RemoveDropsEveryMatch ==
  [][\A t \in Targets(tasks) : remove_task(t) => Removed(t)]_vars

\* A remove took two tasks out and left one.
C4_Witness ==
  last.op = "remove" /\ last.outcome = "ok" /\ last.n >= 2 /\ tasks # <<>>

Blank(text) == \A k \in 1..Len(text) : text[k] = " "

NoOpCall ==
  \/ \E text \in EntryTexts : Blank(text) /\ add_task_event(text)
  \/ \E t \in Targets(tasks) :
       /\ Matches(tasks, t) = {}
       /\ (toggle_complete(t) \/ remove_task(t))

\* C5: an add of a text that is empty once trimmed, and a toggle or a remove
\* of a target that matches no task, leave the list and the file as they
\* were, and write nothing.
C5_NoOpChangesNothing ==
  [][NoOpCall => tasks' = tasks /\ file' = file /\ last'.saved = "none"]_vars

\* A call changed nothing while the file did not hold the list in memory.
C5_Witness ==
  /\ last.op \in {"add", "toggle", "remove"} /\ last.outcome = "noop"
  /\ tasks # <<>>
  /\ ~OnDisk(tasks)

\* d is text without the blanks around it.
TrimOf(d, text) ==
  /\ d # <<>> /\ d[1] # " " /\ d[Len(d)] # " "
  /\ \E k \in 0..(Len(text) - Len(d)) :
       /\ SubSeq(text, k + 1, k + Len(d)) = d
       /\ \A i \in 1..Len(text) : (i <= k \/ i > k + Len(d)) => text[i] = " "

Added(text) ==
  /\ Len(tasks') = Len(tasks) + 1
  /\ SubSeq(tasks', 1, Len(tasks)) = tasks
  /\ LET t == tasks'[Len(tasks')]
     IN /\ DOMAIN t = Keys
        /\ t["description"].ty = "str" /\ TrimOf(t["description"].v, text)
        /\ t["done"] = JFalse
        /\ InFormat(t["timestamp"]) /\ strptime(t["timestamp"]).t = now

\* C6: an add of a text that is not empty once trimmed appends one task, its
\* description the trimmed text, done false, its timestamp the current time;
\* the tasks before it are as they were.
C6_AddAppendsOne ==
  [][\A text \in EntryTexts : ~Blank(text) /\ add_task_event(text) => Added(text)]_vars

\* An add put a task after others, later than the first of them.
C6_Witness ==
  /\ last.op = "add" /\ last.outcome = "ok"
  /\ Len(tasks) >= 2
  /\ strptime(tasks[1]["timestamp"]).t < strptime(tasks[Len(tasks)]["timestamp"]).t

Completed(t) == Truthy(t["done"])

\* Task i of the list is shown before task j.
Before(ts, i, j) ==
  \/ ~Completed(ts[i]) /\ Completed(ts[j])
  \/ /\ Completed(ts[i]) = Completed(ts[j])
     /\ \/ strptime(ts[i]["timestamp"]).t < strptime(ts[j]["timestamp"]).t
        \/ /\ strptime(ts[i]["timestamp"]).t = strptime(ts[j]["timestamp"]).t
           /\ i < j

DisplayOrder(rows, ts) ==
  /\ Len(rows) = Len(ts)
  /\ \E p \in [1..Len(ts) -> 1..Len(ts)] :
       /\ \A k, l \in 1..Len(ts) : k # l => p[k] # p[l]
       /\ \A k \in 1..Len(ts) : rows[k] = ts[p[k]]
       /\ \A k, l \in 1..Len(ts) : k < l => Before(ts, p[k], p[l])

\* C7: what refresh_task_list shows is the list in memory with every
\* incomplete task before every completed one and, within each of the two,
\* the tasks by timestamp, oldest first, equal ones in the list's order.
C7_DisplayOrder ==
  shown.status = "rows" => DisplayOrder(shown.rows, tasks)

NotObjects(f) ==
  \/ f.kind \in {"missing", "empty", "garbage", "scalar"}
  \/ \E i \in 1..Len(f.items) : ~IsDict(f.items[i])

\* C8: load_tasks raises nothing and leaves the file as it is; for a missing
\* file, a zero-length one, one that is no JSON and one that is no array of
\* objects it returns the empty list.
C8_LoadNeverRaises ==
  [][TodoApp_init =>
       /\ last'.outcome # "load_raised"
       /\ file' = file
       /\ (NotObjects(file) => tasks' = <<>>)]_vars

\* The program started on an array that holds an object and a number.
C8_Witness ==
  /\ last.op = "init" /\ pc = "running"
  /\ file.kind = "list"
  /\ \E i, j \in 1..Len(file.items) : IsDict(file.items[i]) /\ ~IsDict(file.items[j])
  /\ tasks = <<>>

\* C9: a list of well-formed tasks that on_closing saved is the list the
\* next start loads, field for field and in order.
C9_RoundTrip ==
  [][(/\ last.op = "close" /\ last.saved = "ok"
      /\ \A i \in 1..Len(tasks) : WellFormed(tasks[i])
      /\ TodoApp_init) => tasks' = tasks]_vars

\* The program started a second later than the tasks it loaded, one of
\* them done, were made.
C9_Witness ==
  /\ last.op = "init" /\ pc = "running"
  /\ Len(tasks) >= 2
  /\ \A i \in 1..Len(tasks) : WellFormed(tasks[i]) /\ strptime(tasks[i]["timestamp"]).t < now
  /\ \E i \in 1..Len(tasks) : tasks[i]["done"] = JTrue

\* C10: the description of every task in memory is not empty once trimmed.
C10_DescriptionsNotBlank ==
  pc = "running" =>
    \A i \in 1..Len(tasks) :
      tasks[i]["description"].ty = "str" => ~Blank(tasks[i]["description"].v)

====
